---- MODULE Spec2Model ----
(***************************************************************************)
(* Model of the satisfaction-survey dashboard script src/app.py.           *)
(*                                                                         *)
(* The script is executed top to bottom on every interaction (a script     *)
(* run):   line 50 loads the data through the cached function              *)
(* carregar_dados (lines 26-47, cached 300 s by the decorator on line 27), *)
(* lines 53-55 handle the refresh button (clear the cache, run again),     *)
(* lines 57-255 render the page from df: the general metrics, the daily    *)
(* series, the filter widgets, the filtered table and its statistics.      *)
(*                                                                         *)
(* A data frame is a sequence of rows; of the seven columns only the four  *)
(* that any computation reads are kept (Setor, Material Faltando,          *)
(* Qualidade Serviço, Data Registro); ID, Qual Material and Mensagem are   *)
(* carried through the script untouched.  An optional value (the cache     *)
(* entry, the metrics block, the filtered statistics) is a sequence of     *)
(* length 0 or 1.                                                          *)
(***************************************************************************)
EXTENDS Integers, Sequences, FiniteSets, TLC

VARIABLES
    agora,                  \* the wall clock, in seconds
    cache,                  \* the entry st.cache_data holds for carregar_dados
    respostas,              \* what obter_todas_respostas gave the last store query
    consultas,              \* number of store queries made so far
    ultimo,                 \* where the last load came from: "nenhum", "cache", "banco"
    erro,                   \* whether this run shows the st.error of line 46
    df,                     \* the script's data frame (line 50)
    pc,                     \* position of the script run
    botao,                  \* whether this run was started by the refresh button
    metricas,               \* the general metrics block (lines 61-86), when rendered
    respostas_diarias,      \* the daily series (line 164)
    opcoes,                 \* the options the two multiselects were built with
    setores_selecionados,   \* widget state, line 206
    qualidade_selecionada,  \* widget state, line 213
    material_selecionado,   \* widget state, line 220
    df_filtrado,            \* lines 227-233
    estatisticas            \* the statistics of the filtered rows (lines 242-255)

vars == <<agora, cache, respostas, consultas, ultimo, erro, df, pc, botao,
          metricas, respostas_diarias, opcoes, setores_selecionados,
          qualidade_selecionada, material_selecionado, df_filtrado, estatisticas>>

varsCarga == <<cache, respostas, consultas, ultimo, erro, df>>

varsPagina == <<metricas, respostas_diarias, opcoes, setores_selecionados,
                qualidade_selecionada, material_selecionado, df_filtrado,
                estatisticas>>

----------------------------------------------------------------------------
(* Bounds and program constants.  df[mask], the rows at which a mask holds in
   their order, is SelectSeq. *)

\* lifetime of a cache entry in seconds: @st.cache_data(ttl=300)
ttl == 300

\* seconds in a calendar day (timedelta.days, .dt.date)
SegundosDia == 86400

\* longest answer of the store in the load model
MaxLinhasBanco == 2

\* longest data frame in the page models
MaxLinhas == 3

\* the clock of the load model runs from Epoca to Epoca + MaxTempo
MaxTempo == 450

\* store queries the load model follows
MaxConsultas == 3

Epoca == 3 * SegundosDia

\* the clock advances by one of these; 149 + 150 = 299 is the last fresh age,
\* 150 + 150 = 300 the first stale one
Passos == {149, 150}

SeqAte(S, n) == UNION {[1..k -> S] : k \in 0..n}

RECURSIVE Ordenar(_)
\* the elements of a finite set of integers, ascending
Ordenar(S) ==
    IF S = {} THEN <<>>
    ELSE LET m == CHOOSE x \in S : \A y \in S : x <= y
         IN  <<m>> \o Ordenar(S \ {m})

----------------------------------------------------------------------------
(* The labels *)

Sim == "Sim"
Nao == "Não"
Todos == "Todos"

\* The two positive ratings are the ones line 78 names; "Regular" stands for
\* the ratings below them and "Ótimo" for a label outside the form's scale.
Qualidades == {"Muito Bom", "Bom", "Regular"}
Setores == {"Cozinha", "Recepção"}

\* the code points of a label: Python compares str values by them
Codigos(q) ==
    CASE q = "Bom"       -> <<66, 111, 109>>
      [] q = "Muito Bom" -> <<77, 117, 105, 116, 111, 32, 66, 111, 109>>
      [] q = "Regular"   -> <<82, 101, 103, 117, 108, 97, 114>>
      [] q = "Ótimo"     -> <<211, 116, 105, 109, 111>>

\* a < b for two Python strings
StrMenor(a, b) ==
    LET ca == Codigos(a)
        cb == Codigos(b)
    IN  \E k \in 1..(Len(cb)) :
            /\ \A j \in 1..(k - 1) : j <= Len(ca) /\ ca[j] = cb[j]
            /\ \/ k = Len(ca) + 1
               \/ k <= Len(ca) /\ ca[k] < cb[k]

----------------------------------------------------------------------------
(* carregar_dados, lines 26-47 *)

DataInvalida == [valida |-> FALSE, dia |-> 0, seg |-> 0]

\* pd.to_datetime accepts the text of a date
DataValida(txt) == txt.valida

\* pd.to_datetime on one value: seconds since day 0
to_datetime(txt) == txt.dia * SegundosDia + txt.seg

\* .map({True: 'Sim', False: 'Não'}) with the boolean swapped
MapMaterialTrocado(b) == IF b THEN Nao ELSE Sim

\* df['Material Faltando'].map({True: 'Sim', False: 'Não'}), line 37
MapMaterial(b) == IF b THEN Sim ELSE Nao

\* the row of the data frame built from one stored row (lines 34-40)
Linha(r) ==
    [Setor |-> r.Setor,
     MaterialFaltando |-> MapMaterial(r.MaterialFaltando),
     Qualidade |-> r.Qualidade,
     DataRegistro |-> to_datetime(r.DataRegistro)]

\* The body of carregar_dados for one answer of the store.  valor is the data
\* frame returned, erro whether st.error was called (line 46).  The store
\* raising, and pd.to_datetime raising on a text that is no date, both end in
\* the except clause: an empty data frame is returned.
carregar_dados(resp) ==
    IF ~resp.ok THEN [valor |-> <<>>, erro |-> TRUE]
    ELSE IF resp.linhas = <<>> THEN [valor |-> <<>>, erro |-> FALSE]
    ELSE IF \E i \in 1..Len(resp.linhas) : ~DataValida(resp.linhas[i].DataRegistro)
         THEN [valor |-> <<>>, erro |-> TRUE]
    ELSE [valor |-> [i \in 1..Len(resp.linhas) |-> Linha(resp.linhas[i])],
          erro |-> FALSE]

----------------------------------------------------------------------------
(* The cache of carregar_dados: @st.cache_data(ttl=300), line 27 *)

\* an entry of exactly the lifetime's age still counted as fresh
FrescoInclusivo == cache # <<>> /\ agora - cache[1].carregado_em <= ttl

\* the entry is younger than its lifetime
Fresco == cache # <<>> /\ agora - cache[1].carregado_em < ttl

\* what the store can answer: it raises, or returns its rows
RespostasBanco(Linhas, n) ==
    {[ok |-> FALSE, linhas |-> <<>>]} \cup
    {[ok |-> TRUE, linhas |-> s] : s \in SeqAte(Linhas, n)}

\* line 50 served by the cache: the function body does not run; the value and
\* the st.error recorded with it are replayed
CarregarDoCache ==
    /\ pc = "carregar"
    /\ Fresco
    /\ df' = cache[1].valor
    /\ erro' = cache[1].erro
    /\ ultimo' = "cache"
    /\ pc' = "botao"
    /\ UNCHANGED <<agora, cache, respostas, consultas, botao>>
    /\ UNCHANGED varsPagina

\* line 50 with no fresh entry: the body runs, queries the store (line 30) and
\* whatever it returns is stored as the new entry
CarregarDoBanco(Linhas, n) ==
    /\ pc = "carregar"
    /\ ~Fresco
    /\ consultas < MaxConsultas
    /\ \E resp \in RespostasBanco(Linhas, n) :
          LET r == carregar_dados(resp)
          IN  /\ respostas' = resp
              /\ cache' = <<[valor |-> r.valor, erro |-> r.erro, carregado_em |-> agora]>>
              /\ df' = r.valor
              /\ erro' = r.erro
    /\ consultas' = consultas + 1
    /\ ultimo' = "banco"
    /\ pc' = "botao"
    /\ UNCHANGED <<agora, botao>>
    /\ UNCHANGED varsPagina

\* the button running the script again without st.cache_data.clear()
AtualizarSemLimpar ==
    /\ pc = "botao"
    /\ botao
    /\ botao' = FALSE
    /\ pc' = "carregar"
    /\ UNCHANGED <<agora, cache, respostas, consultas, ultimo, erro, df>>
    /\ UNCHANGED varsPagina

\* lines 53-55 when the button started this run: st.cache_data.clear() and
\* st.rerun(), which abandons this run and starts the script again
AtualizarDados ==
    /\ pc = "botao"
    /\ botao
    /\ cache' = <<>>
    /\ botao' = FALSE
    /\ pc' = "carregar"
    /\ UNCHANGED <<agora, respostas, consultas, ultimo, erro, df>>
    /\ UNCHANGED varsPagina

----------------------------------------------------------------------------
(* The page, lines 57-255 *)

\* the percentage taken over the counted rows instead of over all rows
PercentualSobreParte(n, total) ==
    IF n > 0 THEN [num |-> n * 100, den |-> n] ELSE [num |-> 0, den |-> 1]

\* (n / total) * 100 if total > 0 else 0, as an exact fraction num/den
Percentual(n, total) ==
    IF total > 0 THEN [num |-> n * 100, den |-> total] ELSE [num |-> 0, den |-> 1]

\* the nearest midnight instead of the day the timestamp falls in
DataArredondada(ts) == (ts + SegundosDia \div 2) \div SegundosDia

\* .dt.date of a timestamp: the day it falls in
Data(ts) == ts \div SegundosDia

\* the largest element of a non-empty set of integers
Maximo(S) == CHOOSE x \in S : \A y \in S : y <= x

\* lines 69-85, the four metrics
Metricas(d, t) ==
    LET total_respostas   == Len(d)
        material_faltando == Len(SelectSeq(d, LAMBDA r : r.MaterialFaltando = Sim))
        satisfacao_boa    == Len(SelectSeq(d, LAMBDA r : r.Qualidade \in {"Muito Bom", "Bom"}))
        ultima_resposta   == Maximo({d[i].DataRegistro : i \in 1..Len(d)})
    IN  [total_respostas       |-> total_respostas,
         material_faltando     |-> material_faltando,
         percentual_falta      |-> Percentual(material_faltando, total_respostas),
         satisfacao_boa        |-> satisfacao_boa,
         percentual_satisfacao |-> Percentual(satisfacao_boa, total_respostas),
         dias_atras            |-> (t - ultima_resposta) \div SegundosDia]

\* lines 163-164: df.groupby('Data').size(), one row per date, dates ascending
RespostasDiarias(d) ==
    LET datas == Ordenar({Data(d[i].DataRegistro) : i \in 1..Len(d)})
    IN  [k \in 1..Len(datas) |->
            [Data |-> datas[k],
             Quantidade |-> Cardinality({i \in 1..Len(d) : Data(d[i].DataRegistro) = datas[k]})]]

\* lines 227-230: both multiselects
FiltrarSelecao(d, S, Q) ==
    SelectSeq(d, LAMBDA r : r.Setor \in S /\ r.Qualidade \in Q)

\* the selectbox mask shifted by one row: each row is kept when the row before
\* it carries the selected value (the first row has none before it)
FiltrarMaterialDeslocado(f, m) ==
    IF m # Todos
    THEN LET fica == {i \in 2..Len(f) : f[i - 1].MaterialFaltando = m}
             ord  == Ordenar(fica)
         IN  [k \in 1..Len(ord) |-> f[ord[k]]]
    ELSE f

\* lines 232-233: the selectbox
FiltrarMaterial(f, m) ==
    IF m # Todos THEN SelectSeq(f, LAMBDA r : r.MaterialFaltando = m) ELSE f

\* df_filtrado, lines 227-233
Filtrar(d, S, Q, m) == FiltrarMaterial(FiltrarSelecao(d, S, Q), m)

\* how many rows of f carry rating q
Contagem(f, q) == Cardinality({i \in 1..Len(f) : f[i].Qualidade = q})

\* Series.mode(): the most frequent values, sorted
Modas(f) ==
    LET valores == {f[i].Qualidade : i \in 1..Len(f)}
    IN  {q \in valores : \A p \in valores : Contagem(f, p) <= Contagem(f, q)}

\* mode()[-1]: the last of the sorted modes
media_qualidade_ultima(f) ==
    CHOOSE q \in Modas(f) : \A p \in Modas(f) \ {q} : StrMenor(p, q)

\* df_filtrado['Qualidade Serviço'].mode()[0], line 250: the first of the sorted modes
media_qualidade(f) ==
    CHOOSE q \in Modas(f) : \A p \in Modas(f) \ {q} : StrMenor(q, p)

\* lines 242-255
Estatisticas(f) ==
    IF f = <<>> THEN <<>>
    ELSE <<[respostas_filtradas |-> Len(f),
            media_qualidade |-> media_qualidade(f),
            material_falta_filtrado |->
                Len(SelectSeq(f, LAMBDA r : r.MaterialFaltando = Sim))]>>

\* df[col].unique() of the two multiselects (lines 208, 215)
Opcoes(d) ==
    [setor     |-> {d[i].Setor : i \in 1..Len(d)},
     qualidade |-> {d[i].Qualidade : i \in 1..Len(d)}]

\* The page for data frame d at time t with the widgets at S, Q, m.  An empty
\* data frame renders the notice of lines 58-59 and nothing else.
PaginaCom(d, t, S, Q, m) ==
    IF d = <<>>
    THEN /\ metricas' = <<>>
         /\ respostas_diarias' = <<>>
         /\ opcoes' = <<>>
         /\ setores_selecionados' = {}
         /\ qualidade_selecionada' = {}
         /\ material_selecionado' = Todos
         /\ df_filtrado' = <<>>
         /\ estatisticas' = <<>>
    ELSE /\ metricas' = <<Metricas(d, t)>>
         /\ respostas_diarias' = RespostasDiarias(d)
         /\ opcoes' = <<Opcoes(d)>>
         /\ setores_selecionados' = S
         /\ qualidade_selecionada' = Q
         /\ material_selecionado' = m
         /\ df_filtrado' = Filtrar(d, S, Q, m)
         /\ estatisticas' = Estatisticas(Filtrar(d, S, Q, m))

\* the value a multiselect has in this run: what the user left it at while its
\* options are the same, its default (every option) when they changed
ValorSetores(d) ==
    IF opcoes # <<>> /\ opcoes[1].setor = Opcoes(d).setor
    THEN setores_selecionados ELSE Opcoes(d).setor

ValorQualidade(d) ==
    IF opcoes # <<>> /\ opcoes[1].qualidade = Opcoes(d).qualidade
    THEN qualidade_selecionada ELSE Opcoes(d).qualidade

\* the selectbox keeps its value while it stays on the page
ValorMaterial == IF opcoes # <<>> THEN material_selecionado ELSE Todos

\* lines 57-255 of a run the button did not start
Pagina ==
    /\ pc = "botao"
    /\ ~botao
    /\ PaginaCom(df, agora, ValorSetores(df), ValorQualidade(df), ValorMaterial)
    /\ pc' = "ocioso"
    /\ UNCHANGED <<agora, botao>>
    /\ UNCHANGED varsCarga

----------------------------------------------------------------------------
(* The load model: script runs against a store that can fail *)

DataUm == [valida |-> TRUE, dia |-> 1, seg |-> 36000]
DataDois == [valida |-> TRUE, dia |-> 2, seg |-> 100]

\* the rows the store holds in the load model: two well-formed ones, one whose
\* date is no date, one whose rating is outside the scale
LinhasBanco ==
    {[Setor |-> "Cozinha", MaterialFaltando |-> TRUE, Qualidade |-> "Bom",
      DataRegistro |-> DataUm],
     [Setor |-> "Recepção", MaterialFaltando |-> FALSE, Qualidade |-> "Regular",
      DataRegistro |-> DataDois],
     [Setor |-> "Cozinha", MaterialFaltando |-> FALSE, Qualidade |-> "Muito Bom",
      DataRegistro |-> DataInvalida],
     [Setor |-> "Recepção", MaterialFaltando |-> TRUE, Qualidade |-> "Ótimo",
      DataRegistro |-> DataUm]}

\* a user interaction starts a script run; the button exists once a run has
\* reached line 53
Interacao ==
    /\ pc = "ocioso"
    /\ \E b \in BOOLEAN :
          /\ b => ultimo # "nenhum"
          /\ botao' = b
    /\ pc' = "carregar"
    /\ UNCHANGED agora
    /\ UNCHANGED varsCarga
    /\ UNCHANGED varsPagina

PassarTempo ==
    /\ \E p \in Passos :
          /\ agora + p <= Epoca + MaxTempo
          /\ agora' = agora + p
    /\ UNCHANGED <<pc, botao>>
    /\ UNCHANGED varsCarga
    /\ UNCHANGED varsPagina

CarregarBanco == CarregarDoBanco(LinhasBanco, MaxLinhasBanco)

Init ==
    /\ agora = Epoca
    /\ cache = <<>>
    /\ respostas = [ok |-> TRUE, linhas |-> <<>>]
    /\ consultas = 0
    /\ ultimo = "nenhum"
    /\ erro = FALSE
    /\ df = <<>>
    /\ pc = "ocioso"
    /\ botao = FALSE
    /\ metricas = <<>>
    /\ respostas_diarias = <<>>
    /\ opcoes = <<>>
    /\ setores_selecionados = {}
    /\ qualidade_selecionada = {}
    /\ material_selecionado = Todos
    /\ df_filtrado = <<>>
    /\ estatisticas = <<>>

Next ==
    \/ Interacao
    \/ PassarTempo
    \/ CarregarDoCache
    \/ CarregarBanco
    \/ AtualizarDados
    \/ Pagina

Spec == Init /\ [][Next]_vars

----------------------------------------------------------------------------
(* Properties of the load model *)

\* a script run is executing line 50
Carregando == pc = "carregar" /\ pc' = "botao"

\* every date of the store's answer is the text of a date
DatasValidas(resp) ==
    \A i \in 1..Len(resp.linhas) : resp.linhas[i].DataRegistro.valida

\* C1: a load that finds an entry younger than 300 s returns that entry's data
\* and does not query the store; any other load (no entry, an entry of age 300 s
\* or more, the entry cleared by the button) queries the store exactly once and
\* the entry held afterwards is the one just loaded.
C1_CargaOuCache ==
    [][Carregando =>
        IF cache # <<>> /\ agora - cache[1].carregado_em < 300
        THEN /\ consultas' = consultas
             /\ cache' = cache
             /\ df' = cache[1].valor
        ELSE /\ consultas' = consultas + 1
             /\ cache' # <<>>
             /\ cache'[1].carregado_em = agora
             /\ cache'[1].valor = df'
             /\ (respostas'.ok /\ DatasValidas(respostas')
                    => Len(df') = Len(respostas'.linhas))]_vars

\* a second load, 299 s after the first, was served by the cache
C1_Witness ==
    /\ pc = "botao"
    /\ ultimo = "cache"
    /\ consultas = 1
    /\ df # <<>>
    /\ agora - cache[1].carregado_em = 299

\* C2: when a load queries the store and the query fails, the error is shown
\* and the data held before the load is still held after it.
C2_FalhaPreserva ==
    [][(Carregando /\ ultimo' = "banco" /\ ~respostas'.ok /\ cache # <<>>) =>
        /\ erro'
        /\ cache' # <<>>
        /\ cache'[1].valor = cache[1].valor]_vars

\* C3: after a load whose store query failed, the next load queries the store
\* again.
C3_FalhaRepete ==
    [][(Carregando /\ ultimo = "banco" /\ ~respostas.ok) =>
        consultas' = consultas + 1]_vars

\* C4: clearing the cache queries nothing and leaves no fresh entry, whatever
\* the entry's age; the load that follows always queries the store, and the
\* entry it leaves holds the queried rows and nothing else.
C4_Invalidar ==
    [][/\ (pc = "botao" /\ botao /\ pc' = "carregar") =>
            /\ consultas' = consultas
            /\ ~(cache' # <<>> /\ agora' - cache'[1].carregado_em < 300)
       /\ (Carregando /\ cache = <<>> /\ ultimo # "nenhum") =>
            /\ consultas' = consultas + 1
            /\ ultimo' = "banco"
            /\ cache' = <<[valor |-> df', erro |-> erro', carregado_em |-> agora]>>
            /\ (respostas'.ok /\ DatasValidas(respostas')
                   => Len(df') = Len(respostas'.linhas))]_vars

\* two store queries at the same instant: the second one follows the button
C4_Witness ==
    /\ pc = "botao"
    /\ ~botao
    /\ ultimo = "banco"
    /\ consultas = 2
    /\ agora = Epoca
    /\ df # <<>>

\* a stored row normalizes: its date is a date and its rating is on the scale
Normaliza(r) == r.DataRegistro.valida /\ r.Qualidade \in Qualidades

\* C5: when the store answers with rows, the load succeeds and the data frame
\* holds exactly the rows that normalize, in the store's order.
C5_LinhasValidas ==
    (pc = "botao" /\ ultimo = "banco" /\ respostas.ok) =>
        LET boas == SelectSeq(respostas.linhas, Normaliza)
        IN  /\ ~erro
            /\ Len(df) = Len(boas)
            /\ \A i \in 1..Len(boas) :
                  /\ df[i].Setor = boas[i].Setor
                  /\ df[i].Qualidade = boas[i].Qualidade

----------------------------------------------------------------------------
(* The page models: the page computed from every small answer of the store *)

\* the state in which the first run of the script leaves line 50, for a store
\* holding rows of Linhas and a clock reading one of Tempos
InitAposCarga(Linhas, Tempos) ==
    /\ agora \in Tempos
    /\ \E resp \in RespostasBanco(Linhas, MaxLinhas) :
          LET r == carregar_dados(resp)
          IN  /\ respostas = resp
              /\ cache = <<[valor |-> r.valor, erro |-> r.erro, carregado_em |-> agora]>>
              /\ df = r.valor
              /\ erro = r.erro
    /\ consultas = 1
    /\ ultimo = "banco"
    /\ pc = "botao"
    /\ botao = FALSE
    /\ metricas = <<>>
    /\ respostas_diarias = <<>>
    /\ opcoes = <<>>
    /\ setores_selecionados = {}
    /\ qualidade_selecionada = {}
    /\ material_selecionado = Todos
    /\ df_filtrado = <<>>
    /\ estatisticas = <<>>

\* A run started by a change of a filter widget, the widgets then at S, Q, m:
\* line 50 is served by the cache and the page is rendered again.
Reexecutar(S, Q, m) ==
    /\ pc = "ocioso"
    /\ opcoes # <<>>
    /\ Fresco
    /\ df' = cache[1].valor
    /\ erro' = cache[1].erro
    /\ ultimo' = "cache"
    /\ PaginaCom(cache[1].valor, agora, S, Q, m)
    /\ UNCHANGED <<agora, cache, respostas, consultas, pc, botao>>

\* the user changes the sector multiselect (line 206)
SelecionarSetores ==
    \E S \in SUBSET Opcoes(df).setor :
        /\ S # setores_selecionados
        /\ Reexecutar(S, qualidade_selecionada, material_selecionado)

\* the user changes the rating multiselect (line 213)
SelecionarQualidade ==
    \E Q \in SUBSET Opcoes(df).qualidade :
        /\ Q # qualidade_selecionada
        /\ Reexecutar(setores_selecionados, Q, material_selecionado)

\* the user changes the selectbox (line 220)
SelecionarMaterial ==
    \E m \in {Todos, Sim, Nao} :
        /\ m # material_selecionado
        /\ Reexecutar(setores_selecionados, qualidade_selecionada, m)

\* rows of every sector and material flag with either positive rating, and one
\* row of the third rating, all of one instant
LinhasFiltro ==
    [Setor : Setores, MaterialFaltando : BOOLEAN, Qualidade : {"Muito Bom", "Bom"},
     DataRegistro : {DataUm}]
    \cup {[Setor |-> "Recepção", MaterialFaltando |-> FALSE, Qualidade |-> "Regular",
            DataRegistro |-> DataUm]}

InitFiltro == InitAposCarga(LinhasFiltro, {Epoca})

NextFiltro ==
    \/ Pagina
    \/ SelecionarSetores
    \/ SelecionarQualidade
    \/ SelecionarMaterial

SpecFiltro == InitFiltro /\ [][NextFiltro]_vars

\* the last second of day 1 and the first of day 2
DataFimDia == [valida |-> TRUE, dia |-> 1, seg |-> SegundosDia - 1]
DataInicioDia == [valida |-> TRUE, dia |-> 2, seg |-> 0]

\* rows of one sector, of every material flag and rating, at three instants of
\* two days
LinhasResumo ==
    [Setor : {"Cozinha"}, MaterialFaltando : BOOLEAN, Qualidade : Qualidades,
     DataRegistro : {DataUm, DataFimDia, DataInicioDia}]

InitResumo == InitAposCarga(LinhasResumo, {2 * SegundosDia + 50, Epoca})

NextResumo == Pagina

SpecResumo == InitResumo /\ [][NextResumo]_vars

----------------------------------------------------------------------------
(* Properties of the filter, lines 202-255 *)

\* the page has been rendered with its filters
Filtrado == pc = "ocioso" /\ opcoes # <<>>

\* row i of the store's answer passes the filter the widgets state
Passa(i) ==
    /\ respostas.linhas[i].Setor \in setores_selecionados
    /\ respostas.linhas[i].Qualidade \in qualidade_selecionada
    /\ \/ material_selecionado = "Todos"
       \/ material_selecionado = "Sim" /\ respostas.linhas[i].MaterialFaltando
       \/ material_selecionado = "Não" /\ ~respostas.linhas[i].MaterialFaltando

\* C6: the filtered table holds exactly the rows whose sector is selected, whose
\* rating is selected and whose material flag agrees with the selectbox
\* (Todos: either, Sim: missing, Não: not missing), in their order; nothing
\* selected in a multiselect gives an empty table.
C6_Filtro ==
    Filtrado =>
        LET passam == Ordenar({i \in 1..Len(df) : Passa(i)})
        IN  /\ Len(df_filtrado) = Len(passam)
            /\ \A k \in 1..Len(passam) : df_filtrado[k] = df[passam[k]]
            /\ (setores_selecionados = {} \/ qualidade_selecionada = {})
                   => df_filtrado = <<>>

\* of three rows of both sectors, the kitchen's rows with material missing
C6_Witness ==
    /\ Filtrado
    /\ Len(df) = 3
    /\ setores_selecionados = {"Cozinha"}
    /\ qualidade_selecionada = Opcoes(df).qualidade
    /\ material_selecionado = "Sim"
    /\ Len(df_filtrado) = 1
    /\ \E i \in 1..3 : df[i].Setor = "Cozinha" /\ df[i].MaterialFaltando = "Não"
    /\ \E i \in 1..3 : df[i].Setor = "Recepção" /\ df[i].MaterialFaltando = "Sim"

\* C7: filtering the filtered table again by the same widgets gives the same
\* rows in the same order, and the filtered table is no longer than the data.
C7_Idempotente ==
    Filtrado =>
        /\ Filtrar(df_filtrado, setores_selecionados, qualidade_selecionada,
                   material_selecionado) = df_filtrado
        /\ Len(df_filtrado) <= Len(df)

\* a filter that keeps two of three rows
C7_Witness ==
    /\ Filtrado
    /\ Len(df) = 3
    /\ Len(df_filtrado) = 2
    /\ material_selecionado = "Sim"
    /\ setores_selecionados # Opcoes(df).setor

\* rank of a rating on the form's scale, best first
Posto(q) ==
    CASE q = "Muito Bom" -> 0
      [] q = "Bom"       -> 1
      [] q = "Regular"   -> 2

\* position of a rating when the labels are sorted as text
OrdemTexto(q) ==
    CASE q = "Bom"       -> 0
      [] q = "Muito Bom" -> 1
      [] q = "Regular"   -> 2

\* the rows of the filtered table that carry rating q
Vezes(q) == Cardinality({i \in 1..Len(df_filtrado) : df_filtrado[i].Qualidade = q})

\* the reported rating is one of the filtered table with the largest count
MaisComum(q) ==
    /\ Vezes(q) >= 1
    /\ \A p \in Qualidades : Vezes(p) <= Vezes(q)

\* C10 as claimed: the most common rating reported for a non-empty filtered
\* table has the largest count, and among ratings tied for it is the one of
\* lowest rank on the scale.
C10_PostoMaisBaixo ==
    (Filtrado /\ df_filtrado # <<>>) =>
        /\ estatisticas # <<>>
        /\ MaisComum(estatisticas[1].media_qualidade)
        /\ \A p \in Qualidades :
              Vezes(p) = Vezes(estatisticas[1].media_qualidade)
                  => Posto(estatisticas[1].media_qualidade) <= Posto(p)

\* C10 as amended: the most common rating reported for a non-empty filtered
\* table has the largest count, and among ratings tied for it is the one whose
\* label sorts first as text ("Bom" before "Muito Bom" before "Regular").
C10_PrimeiroRotulo ==
    (Filtrado /\ df_filtrado # <<>>) =>
        /\ estatisticas # <<>>
        /\ MaisComum(estatisticas[1].media_qualidade)
        /\ \A p \in Qualidades :
              Vezes(p) = Vezes(estatisticas[1].media_qualidade)
                  => OrdemTexto(estatisticas[1].media_qualidade) <= OrdemTexto(p)

\* "Muito Bom" and "Bom" tie and "Bom" is reported
C10_Witness ==
    /\ Filtrado
    /\ Len(df_filtrado) = 3
    /\ Vezes("Muito Bom") = 1
    /\ Vezes("Bom") = 1
    /\ Vezes("Regular") = 1
    /\ estatisticas[1].media_qualidade = "Bom"

----------------------------------------------------------------------------
(* Properties of the metrics and of the daily series, lines 57-86 and 162-164 *)

\* the page has been rendered
Renderizado == pc = "ocioso"

\* stored rows whose material flag is set
Faltando == Cardinality({i \in 1..Len(df) : respostas.linhas[i].MaterialFaltando})

\* stored rows rated with one of the two best ratings
Positivas ==
    Cardinality({i \in 1..Len(df) : Posto(respostas.linhas[i].Qualidade) <= 1})

\* p is the percentage n of total
Porcento(p, n, total) ==
    /\ p.den > 0
    /\ p.num * total = 100 * n * p.den
    /\ 0 <= p.num
    /\ p.num <= 100 * p.den

Zero(p) == p.den > 0 /\ p.num = 0

\* what C8 and its amendment agree on: the metrics of a non-empty data frame
MetricasCertas(m) ==
    /\ m.total_respostas = Len(df)
    /\ m.material_faltando = Faltando
    /\ 0 <= m.material_faltando
    /\ m.material_faltando <= m.total_respostas
    /\ m.satisfacao_boa = Positivas
    /\ m.total_respostas > 0 =>
          /\ Porcento(m.percentual_falta, m.material_faltando, m.total_respostas)
          /\ Porcento(m.percentual_satisfacao, m.satisfacao_boa, m.total_respostas)

\* C8 as claimed: every data frame, the empty one included, gets its metrics:
\* 0 <= missing <= total, the missing percentage is missing/total (in percent)
\* when total > 0 and exactly 0 when total = 0, as is the positive percentage.
C8_ResumoSempre ==
    Renderizado =>
        /\ metricas # <<>>
        /\ MetricasCertas(metricas[1])
        /\ metricas[1].total_respostas = 0 =>
              /\ Zero(metricas[1].percentual_falta)
              /\ Zero(metricas[1].percentual_satisfacao)

\* C8 as amended: a non-empty data frame gets its metrics, with
\* 0 <= missing <= total and both percentages the exact share of total, within
\* 0 and 100; the empty data frame gets no metrics at all (no total, no
\* percentage, no age of the last response), and nothing is divided.
C8_ResumoNaoVazio ==
    Renderizado =>
        IF df = <<>>
        THEN metricas = <<>>
        ELSE /\ metricas # <<>>
             /\ MetricasCertas(metricas[1])
             /\ metricas[1].total_respostas > 0

\* three rows, one with material missing, the last response a day old
C8_Witness ==
    /\ Renderizado
    /\ metricas # <<>>
    /\ metricas[1].total_respostas = 3
    /\ metricas[1].material_faltando = 1
    /\ metricas[1].satisfacao_boa = 2
    /\ metricas[1].dias_atras = 1

RECURSIVE SomaQuantidades(_)
SomaQuantidades(s) ==
    IF s = <<>> THEN 0 ELSE Head(s).Quantidade + SomaQuantidades(Tail(s))

\* C9: the daily series has one entry for each calendar day on which a stored
\* row was registered and none for another day, the days strictly increasing,
\* each count the number of rows of that day (at least 1), the counts summing
\* to the number of rows.
C9_SerieDiaria ==
    Renderizado =>
        LET s == respostas_diarias
        IN  /\ {s[k].Data : k \in 1..Len(s)} =
                  {respostas.linhas[i].DataRegistro.dia : i \in 1..Len(df)}
            /\ \A k \in 1..(Len(s) - 1) : s[k].Data < s[k + 1].Data
            /\ \A k \in 1..Len(s) :
                  /\ s[k].Quantidade >= 1
                  /\ s[k].Quantidade =
                        Cardinality({i \in 1..Len(df) :
                            respostas.linhas[i].DataRegistro.dia = s[k].Data})
            /\ SomaQuantidades(s) = Len(df)

\* three rows given out of order, two of them on the same day at different times
C9_Witness ==
    /\ Renderizado
    /\ Len(df) = 3
    /\ Len(respostas_diarias) = 2
    /\ respostas_diarias[1].Quantidade = 2
    /\ df[1].DataRegistro > df[2].DataRegistro
    /\ df[3].DataRegistro # df[2].DataRegistro
    /\ Data(df[3].DataRegistro) = Data(df[2].DataRegistro)

====
